---- MODULE Spec2Model ----
(***************************************************************************)
(* Model of the adaptive posting-time scheduler of clipflow                *)
(* (core/scheduler/smart_scheduler.py): the slot store, its persistence,   *)
(* the startup load task, record_post_performance, get_optimal_time,      *)
(* get_multi_platform_schedule, optimize_schedule_for_week,                *)
(* get_posting_analytics and get_optimal_time_with_exploration.            *)
(*                                                                         *)
(* Numbers.  Scores, confidences and engagement rates are Python floats;   *)
(* they are modelled in fixed point, Unit steps to 1.0, every division     *)
(* rounding down.  Instants are counted in half hours since Monday         *)
(* 2024-01-01 00:00 UTC: an even instant lies exactly on the hour, an odd  *)
(* one somewhere inside it.  The code only ever reads the hour, the        *)
(* weekday, the day of the month and whole-day differences of an instant,  *)
(* and all of these are the same for every instant inside one hour.        *)
(***************************************************************************)
EXTENDS Integers, Sequences, FiniteSets, TLC

(***************************************************************************)
(* Bounds of the model                                                     *)
(***************************************************************************)
MaxRecords == 2        \* record_post_performance calls in one behaviour
MaxElapsed == 25       \* half hours the clock advances after the construction
MaxSamples == 5        \* posts recorded on one slot with varying engagement
MaxConstant == 10      \* posts recorded on one slot with one engagement rate

(***************************************************************************)
(* Fixed point                                                             *)
(***************************************************************************)
Unit == 10000000

Min(a, b) == IF a <= b THEN a ELSE b
Max(a, b) == IF a >= b THEN a ELSE b
Abs(a) == IF a >= 0 THEN a ELSE 0 - a

\* floor(a * b / c) for a >= 0, b >= 0, c > 0, computed without leaving 32 bits
MulDiv(a, b, c) == (a \div c) * b + ((a % c) * b) \div c

(***************************************************************************)
(* datetime: instants in half hours                                        *)
(***************************************************************************)
TicksPerHour == 2
TicksPerDay == 48

Hour(t) == (t \div TicksPerHour) % 24
DayIndex(t) == t \div TicksPerDay
\* datetime.weekday(): 0 = Monday; day 0 of the model is a Monday
Weekday(t) == DayIndex(t) % 7
\* first day (index) of each month of 2024
MonthStarts == {0, 31, 60, 91, 121, 152, 182, 213, 244, 274, 305, 335}
\* datetime.day
DayOfMonth(t) ==
    LET d == DayIndex(t)
        s == CHOOSE m \in MonthStarts : m <= d /\ \A k \in MonthStarts : k <= d => k <= m
    IN d - s + 1
\* timedelta(days = n)
AddDays(t, n) == t + n * TicksPerDay
\* datetime.replace(hour = h, minute = 0, second = 0, microsecond = 0), 0 <= h <= 23
ReplaceHour(t, h) == DayIndex(t) * TicksPerDay + h * TicksPerHour
\* (a - b).days
DaysBetween(a, b) == IF a >= b THEN (a - b) \div TicksPerDay
                     ELSE 0 - ((b - a + TicksPerDay - 1) \div TicksPerDay)

(***************************************************************************)
(* Platforms and the default table                                         *)
(***************************************************************************)
DefaultPlatforms == {"instagram", "youtube", "tiktok", "twitter", "linkedin"}
UnknownPlatform == "mastodon"
Platforms == DefaultPlatforms \cup {UnknownPlatform}

\* self.platform_defaults: (hour, day_of_week) pairs
platform_defaults ==
    [p \in DefaultPlatforms |->
        CASE p = "instagram" -> << <<19, 0>>, <<19, 1>>, <<19, 2>>, <<19, 3>>, <<19, 4>> >>
          [] p = "youtube"   -> << <<20, 6>>, <<20, 0>>, <<15, 6>>, <<15, 0>>, <<18, 2>> >>
          [] p = "tiktok"    -> << <<21, 1>>, <<21, 2>>, <<21, 3>>, <<19, 4>>, <<19, 5>> >>
          [] p = "twitter"   -> << <<9, 1>>, <<9, 2>>, <<9, 3>>, <<17, 1>>, <<17, 2>> >>
          [] OTHER           -> << <<8, 1>>, <<8, 2>>, <<8, 3>>, <<12, 1>>, <<17, 2>> >>]

(***************************************************************************)
(* TimeSlot and the store: platform -> insertion-ordered (hour, dow) dict  *)
(***************************************************************************)
NeverUpdated == -1     \* last_updated = ""

TimeSlot(h, d, p, sc, cf, n, lu) ==
    [hour |-> h, day_of_week |-> d, platform |-> p, score |-> sc,
     confidence |-> cf, sample_count |-> n, last_updated |-> lu]

NeutralScore == Unit \div 2        \* 0.5
LowConfidence == Unit \div 10      \* 0.1
ConfidenceStep == Unit \div 20     \* 0.05
ConfidenceCap == 19 * (Unit \div 20) \* 0.95

EmptyStore == [q \in {} |-> << >>]

\* self.time_slots.get(platform, {})
SlotsOf(ts, p) == IF p \in DOMAIN ts THEN ts[p] ELSE << >>

\* position of key (h, d) in an ordered dict, 0 when absent
KeyIndex(slots, h, d) ==
    IF \E i \in 1..Len(slots) : slots[i].key = <<h, d>>
    THEN CHOOSE i \in 1..Len(slots) : slots[i].key = <<h, d>>
    ELSE 0

\* dict[(h, d)] = slot: in place when the key exists, appended otherwise
DictPut(slots, h, d, slot) ==
    LET i == KeyIndex(slots, h, d)
        e == [key |-> <<h, d>>, slot |-> slot]
    IN IF i = 0 THEN Append(slots, e) ELSE [slots EXCEPT ![i] = e]

\* self.time_slots[platform] = {(h, d): slot}: the platform's dict is replaced
StorePutFreshDict(ts, p, h, d, slot) ==
    [q \in DOMAIN ts \cup {p} |->
        IF q = p THEN <<[key |-> <<h, d>>, slot |-> slot]>> ELSE ts[q]]

\* self.time_slots[platform][(h, d)] = slot
StorePut(ts, p, h, d, slot) ==
    [q \in DOMAIN ts \cup {p} |->
        IF q = p THEN DictPut(SlotsOf(ts, p), h, d, slot) ELSE ts[q]]

\* self.time_slots[platform] on the defaultdict: a missing platform is inserted
StoreAfterIndex(ts, p) == [q \in DOMAIN ts \cup {p} |-> SlotsOf(ts, q)]

\* the store after self.time_slots.get(platform, {}): nothing is inserted
StoreAfterGet(ts, p) == ts

RECURSIVE StoreAfterGets(_, _)
\* the store after the .get of each platform of a list
StoreAfterGets(ts, platforms) ==
    IF platforms = << >> THEN ts
    ELSE StoreAfterGets(StoreAfterGet(ts, Head(platforms)), Tail(platforms))

\* every (platform, index) of the store
StoreEntries(ts) == {<<p, i>> \in (DOMAIN ts) \X (1..12) : i <= Len(ts[p])}

(***************************************************************************)
(* Persistence: time_slots.json and user_patterns.json                     *)
(***************************************************************************)
\* a file is absent, unreadable as JSON, or holds a document
NoFile == [state |-> "absent", doc |-> [q \in {} |-> << >>]]
CorruptFile == [state |-> "corrupt", doc |-> [q \in {} |-> << >>]]
ValidFile(doc) == [state |-> "valid", doc |-> doc]

\* str((hour, dow)) and eval(slot_key)
KeyStr(h, d) == <<"(", h, ", ", d, ")">>
\* the two numbers of the key read in the opposite order
EvalKeyReversed(s) == <<s[4], s[2]>>
EvalKey(s) == <<s[2], s[4]>>

\* the JSON document _save_data writes
DumpSlots(ts) ==
  ValidFile(
    [p \in DOMAIN ts |->
        [i \in 1..Len(ts[p]) |->
            [name |-> KeyStr(ts[p][i].key[1], ts[p][i].key[2]), data |-> ts[p][i].slot]]])

RECURSIVE LoadEntries(_, _, _)
\* the inner loop of _load_data over one platform of the document
LoadEntries(ts, p, entries) ==
    IF entries = << >> THEN ts
    ELSE LET k == EvalKey(Head(entries).name)
         IN LoadEntries(StorePut(ts, p, k[1], k[2], Head(entries).data), p, Tail(entries))

RECURSIVE LoadPlatforms(_, _, _)
LoadPlatforms(ts, doc, todo) ==
    IF todo = {} THEN ts
    ELSE LET p == CHOOSE q \in todo : TRUE
         IN LoadPlatforms(LoadEntries(ts, p, doc[p]), doc, todo \ {p})

\* the loop of _load_data over the document
LoadSlots(ts, doc) == LoadPlatforms(ts, doc, DOMAIN doc)

\* a default that fills only a key the store does not have yet (setdefault)
DefaultSlotKept(ts, p, h, d, t) ==
    LET i == KeyIndex(SlotsOf(ts, p), h, d)
    IN StorePut(ts, p, h, d,
                IF i # 0 THEN SlotsOf(ts, p)[i].slot
                ELSE TimeSlot(h, d, p, NeutralScore, LowConfidence, 0, t))

\* self.time_slots[platform][(hour, dow)] = TimeSlot(score 0.5, confidence 0.1, 0 samples)
DefaultSlotPut(ts, p, h, d, t) ==
    StorePut(ts, p, h, d, TimeSlot(h, d, p, NeutralScore, LowConfidence, 0, t))

RECURSIVE InitPlatformDefaults(_, _, _, _)
\* the inner loop of _initialize_default_slots over one platform's defaults
InitPlatformDefaults(ts, p, defaults, t) ==
    IF defaults = << >> THEN ts
    ELSE InitPlatformDefaults(
             DefaultSlotPut(ts, p, Head(defaults)[1], Head(defaults)[2], t),
             p, Tail(defaults), t)

RECURSIVE InitDefaultsOver(_, _, _)
InitDefaultsOver(ts, todo, t) ==
    IF todo = {} THEN ts
    ELSE LET p == CHOOSE q \in todo : TRUE
         IN InitDefaultsOver(InitPlatformDefaults(ts, p, platform_defaults[p], t), todo \ {p}, t)

\* _initialize_default_slots, without its save
InitializeDefaultSlots(ts, t) == InitDefaultsOver(ts, DefaultPlatforms, t)

(***************************************************************************)
(* Scoring                                                                 *)
(***************************************************************************)
DecayUnit == 10000
\* math.exp(-days / 30) in DecayUnit steps, for days = 0, 1, 2, ...
DecayTable ==
    <<10000, 9672, 9355, 9048, 8752, 8465, 8187, 7919, 7659, 7408,
      7165, 6930, 6703, 6483, 6271, 6065, 5866, 5674, 5488, 5308,
      5134, 4966, 4803, 4646, 4493, 4346, 4204, 4066, 3932, 3803,
      3679, 3558, 3442, 3329, 3220, 3114, 3012, 2913, 2818, 2725,
      2636, 2550, 2466, 2385, 2307, 2231, 2158, 2087, 2019, 1953,
      1889, 1827, 1767, 1709, 1653, 1599, 1546, 1496, 1447, 1399, 1353>>
DecayFactor(days_old) == DecayTable[days_old + 1]

\* the adjustment with the first day of the month tested ahead of the weekdays
GetDayAdjustmentMonthFirst(t) ==
    IF DayOfMonth(t) = 1 THEN 0 - (Unit \div 20)
    ELSE IF Weekday(t) = 0 THEN 0 - (Unit \div 10)
    ELSE IF Weekday(t) = 4 THEN Unit \div 20
    ELSE 0

\* _get_day_adjustment
GetDayAdjustment(t) ==
    IF Weekday(t) = 0 THEN 0 - (Unit \div 10)
    ELSE IF Weekday(t) = 4 THEN Unit \div 20
    ELSE IF DayOfMonth(t) = 1 THEN 0 - (Unit \div 20)
    ELSE 0

\* _get_event_adjustment
GetEventAdjustment(t) == IF Weekday(t) >= 5 THEN Unit \div 50 ELSE 0

\* a clamp from below only: max(dynamic_score, 0.0)
ClampFromBelow(x) == Max(x, 0)

\* min(max(dynamic_score, 0.0), 1.0)
Clamp(x) == Min(Max(x, 0), Unit)

\* _calculate_dynamic_score
CalculateDynamicScore(slot, target_time) ==
    LET decay_factor ==
            IF slot.last_updated # NeverUpdated
            THEN DecayFactor(DaysBetween(target_time, slot.last_updated))
            ELSE DecayUnit \div 10
        confidence_boost == slot.confidence \div 5
        sample_factor == Min(slot.sample_count, 10) * (Unit \div 100)
        dynamic_score == MulDiv(slot.score, decay_factor, DecayUnit) + confidence_boost
                         + sample_factor + GetDayAdjustment(target_time)
                         + GetEventAdjustment(target_time)
    IN Clamp(dynamic_score)

(***************************************************************************)
(* Candidates                                                              *)
(***************************************************************************)
\* elements of a list as a set (x in list)
Elems(list) == {list[i] : i \in 1..Len(list)}

\* datetime.replace(hour = h) raises ValueError outside 0..23
ValidHour(h) == h \in 0..23

\* a check against a post published on Thursday 2024-05-30 19:00
ViolatesMinGapOfRecentPost(candidate_time, min_gap_hours) ==
    Abs(candidate_time - (150 * TicksPerDay + 19 * TicksPerHour)) < min_gap_hours * TicksPerHour

\* _violates_min_gap
ViolatesMinGap(candidate_time, min_gap_hours) == FALSE

\* the weekday test alone, without the exclusion test
ReachesReplaceAnyHour(e, target_date, exclude_hours) ==
    e.key[2] = Weekday(target_date)

\* the slot passes the weekday and exclusion tests of the inner loop
ReachesReplace(e, target_date, exclude_hours) ==
    /\ e.key[2] = Weekday(target_date)
    /\ e.key[1] \notin Elems(exclude_hours)

RECURSIVE CandidatesOfDay(_, _, _, _, _)
\* the inner loop of _get_candidate_slots for one target date
CandidatesOfDay(slots, start_time, target_date, exclude_hours, min_gap_hours) ==
    IF slots = << >> THEN << >>
    ELSE LET e == Head(slots)
             rest == CandidatesOfDay(Tail(slots), start_time, target_date,
                                     exclude_hours, min_gap_hours)
             candidate_time == ReplaceHour(target_date, e.key[1])
         IN IF ~ReachesReplace(e, target_date, exclude_hours) THEN rest
            ELSE IF candidate_time <= start_time THEN rest
            ELSE IF ViolatesMinGap(candidate_time, min_gap_hours) THEN rest
            ELSE << [datetime |-> candidate_time,
                     hour |-> e.key[1],
                     day_of_week |-> e.key[2],
                     score |-> CalculateDynamicScore(e.slot, candidate_time),
                     confidence |-> e.slot.confidence,
                     base_slot |-> e.slot] >> \o rest

RECURSIVE CandidatesFrom(_, _, _, _, _)
\* the outer loop over day_offset in range(7)
CandidatesFrom(day_offset, slots, start_time, exclude_hours, min_gap_hours) ==
    IF day_offset >= 7 THEN << >>
    ELSE CandidatesOfDay(slots, start_time, AddDays(start_time, day_offset),
                         exclude_hours, min_gap_hours)
         \o CandidatesFrom(day_offset + 1, slots, start_time, exclude_hours, min_gap_hours)

\* _get_candidate_slots raises when some slot reaches replace() with a bad hour
CandidateSlotsRaise(ts, platform, start_time, exclude_hours) ==
    \E day_offset \in 0..6 : \E e \in Elems(SlotsOf(ts, platform)) :
        /\ ReachesReplace(e, AddDays(start_time, day_offset), exclude_hours)
        /\ ~ValidHour(e.key[1])

\* _get_candidate_slots, when it does not raise
GetCandidateSlots(ts, platform, start_time, exclude_hours, min_gap_hours) ==
    CandidatesFrom(0, SlotsOf(ts, platform), start_time, exclude_hours, min_gap_hours)

RECURSIVE InsertByScoreBeforeEquals(_, _)
\* place c ahead of the elements of equal score (a sort that is not stable)
InsertByScoreBeforeEquals(sorted, c) ==
    IF sorted = << >> THEN <<c>>
    ELSE IF Head(sorted).score > c.score
         THEN <<Head(sorted)>> \o InsertByScoreBeforeEquals(Tail(sorted), c)
    ELSE <<c>> \o sorted

RECURSIVE InsertByScore(_, _)
\* place c behind every element whose score is not smaller (stable, descending)
InsertByScore(sorted, c) ==
    IF sorted = << >> THEN <<c>>
    ELSE IF Head(sorted).score >= c.score THEN <<Head(sorted)>> \o InsertByScore(Tail(sorted), c)
    ELSE <<c>> \o sorted

RECURSIVE SortByScore(_)
\* candidate_slots.sort(key = score, reverse = True)
SortByScore(list) ==
    IF list = << >> THEN << >>
    ELSE InsertByScore(SortByScore(SubSeq(list, 1, Len(list) - 1)), list[Len(list)])

(***************************************************************************)
(* Recommendations                                                         *)
(***************************************************************************)
day_names == <<"Monday", "Tuesday", "Wednesday", "Thursday", "Friday", "Saturday", "Sunday">>

\* _convert_to_local_time: the weekday name and the hour of the label
ConvertToLocalTime(utc_time) ==
    [day_name |-> day_names[Weekday(utc_time) + 1], hour |-> (Hour(utc_time) + 4) % 24]

\* _generate_recommendation_reason
GenerateRecommendationReason(slot, platform) ==
    << IF 10 * slot.score > 7 * Unit THEN "High historical engagement"
       ELSE IF 10 * slot.score > 5 * Unit THEN "Good historical performance"
       ELSE "Average performance expected",
       IF 10 * slot.confidence > 7 * Unit THEN "high confidence"
       ELSE IF 10 * slot.confidence > 4 * Unit THEN "medium confidence"
       ELSE "low confidence",
       <<"optimal for", platform, "on", day_names[slot.day_of_week + 1]>> >>

ScheduleRecommendation(platform, datetime_utc, local_time, score, confidence, reason, alts) ==
    [platform |-> platform, datetime_utc |-> datetime_utc, local_time |-> local_time,
     score |-> score, confidence |-> confidence, reason |-> reason,
     alternative_slots |-> alts]

\* alternative_slots: None, or a list of candidates
None == [none |-> TRUE, list |-> << >>]
ListOf(l) == [none |-> FALSE, list |-> l]

Returned(value) == [kind |-> "returned", value |-> value]
Raised == [kind |-> "raised"]

\* the lookup with Monday noon as the default of unknown platforms
DefaultTimesMonday(platform) ==
    IF platform \in DOMAIN platform_defaults THEN platform_defaults[platform]
    ELSE << <<12, 0>> >>

\* self.platform_defaults.get(platform, [(12, 1)])
DefaultTimes(platform) ==
    IF platform \in DOMAIN platform_defaults THEN platform_defaults[platform]
    ELSE << <<12, 1>> >>

\* the anchoring with current_time.hour > hour in place of >=
FallbackTimeStrict(hour, dow, current_time) ==
    LET d0 == (dow - Weekday(current_time)) % 7
        days_ahead == IF d0 = 0 /\ Hour(current_time) > hour THEN 7 ELSE d0
    IN ReplaceHour(AddDays(current_time, days_ahead), hour)

\* the instant _get_fallback_recommendation anchors (hour, dow) at
FallbackTime(hour, dow, current_time) ==
    LET d0 == (dow - Weekday(current_time)) % 7
        days_ahead == IF d0 = 0 /\ Hour(current_time) >= hour THEN 7 ELSE d0
    IN ReplaceHour(AddDays(current_time, days_ahead), hour)

\* _get_fallback_recommendation
GetFallbackRecommendation(platform, current_time) ==
    LET default_times == DefaultTimes(platform)
        hour == default_times[1][1]
        dow == default_times[1][2]
        target_time == FallbackTime(hour, dow, current_time)
    IN ScheduleRecommendation(platform, target_time, ConvertToLocalTime(target_time),
                              NeutralScore, LowConfidence,
                              <<"Using default", platform, "posting time">>, None)

\* a slice that starts at the best candidate itself: candidate_slots[0:3]
AlternativesFromBest(sorted) == SubSeq(sorted, 1, Min(3, Len(sorted)))

\* candidate_slots[1:4]
Alternatives(sorted) == SubSeq(sorted, 2, Min(4, Len(sorted)))

\* get_optimal_time(platform, exclude_hours = ..., min_gap_hours = ...) at current_time
GetOptimalTime(ts, platform, current_time, exclude_hours, min_gap_hours) ==
    IF CandidateSlotsRaise(ts, platform, current_time, exclude_hours) THEN Raised
    ELSE LET candidate_slots == GetCandidateSlots(ts, platform, current_time,
                                                  exclude_hours, min_gap_hours)
             sorted == SortByScore(candidate_slots)
             best_slot == sorted[1]
         IN IF candidate_slots = << >>
            THEN Returned(GetFallbackRecommendation(platform, current_time))
            ELSE Returned(ScheduleRecommendation(
                     platform, best_slot.datetime, ConvertToLocalTime(best_slot.datetime),
                     best_slot.score, best_slot.confidence,
                     GenerateRecommendationReason(best_slot, platform),
                     ListOf(Alternatives(sorted))))

\* the lookup with platforms outside the table ahead of all others: .get(p, -1)
PlatformPriorityUnknownFirst(p) ==
    CASE p = "linkedin" -> 0 [] p = "twitter" -> 1 [] p = "instagram" -> 2
      [] p = "youtube" -> 3 [] p = "tiktok" -> 4 [] OTHER -> -1

\* platform_priority.get(p, 999)
PlatformPriority(p) ==
    CASE p = "linkedin" -> 0 [] p = "twitter" -> 1 [] p = "instagram" -> 2
      [] p = "youtube" -> 3 [] p = "tiktok" -> 4 [] OTHER -> 999

RECURSIVE InsertByPriority(_, _)
InsertByPriority(sorted, p) ==
    IF sorted = << >> THEN <<p>>
    ELSE IF PlatformPriority(Head(sorted)) <= PlatformPriority(p)
         THEN <<Head(sorted)>> \o InsertByPriority(Tail(sorted), p)
    ELSE <<p>> \o sorted

RECURSIVE SortByPriority(_)
\* sorted(platforms, key = priority)
SortByPriority(platforms) ==
    IF platforms = << >> THEN << >>
    ELSE InsertByPriority(SortByPriority(SubSeq(platforms, 1, Len(platforms) - 1)),
                          platforms[Len(platforms)])

RECURSIVE ExcludeHours(_, _)
\* the exclude_hours list built from used_times
ExcludeHours(used_times, min_gap_hours) ==
    IF used_times = << >> THEN << >>
    ELSE [i \in 1..(2 * min_gap_hours + 1) |->
             (Hour(Head(used_times)) + (i - 1 - min_gap_hours)) % 24]
         \o ExcludeHours(Tail(used_times), min_gap_hours)

RECURSIVE ScheduleLoop(_, _, _, _, _, _)
\* the loop of get_multi_platform_schedule over sorted_platforms
ScheduleLoop(ts, todo, current_time, min_gap_hours, recommendations, used_times) ==
    IF todo = << >> THEN Returned(recommendations)
    ELSE LET r == GetOptimalTime(ts, Head(todo), current_time,
                                 ExcludeHours(used_times, min_gap_hours), 2)
         IN IF r.kind = "raised" THEN Raised
            ELSE ScheduleLoop(ts, Tail(todo), current_time, min_gap_hours,
                              Append(recommendations, r.value),
                              Append(used_times, r.value.datetime_utc))

\* get_multi_platform_schedule
GetMultiPlatformSchedule(ts, platforms, current_time, min_gap_hours) ==
    ScheduleLoop(ts, SortByPriority(platforms), current_time, min_gap_hours, << >>, << >>)

(***************************************************************************)
(* optimize_schedule_for_week, get_posting_analytics and                   *)
(* ThompsonSamplingScheduler.get_optimal_time_with_exploration             *)
(***************************************************************************)
\* posts_per_day.get(platform, 1), over posts_per_day or {p: 1 for p in platforms}
DailyPosts(posts_per_day, platform) ==
    IF platform \in DOMAIN posts_per_day THEN posts_per_day[platform] ELSE 1

\* [rec.datetime_utc.hour for rec in platform_schedule[-3:]]
LastHours(platform_schedule) ==
    LET n == Len(platform_schedule)
        last == SubSeq(platform_schedule, Max(1, n - 2), n)
    IN [i \in 1..Len(last) |-> Hour(last[i].datetime_utc)]

RECURSIVE PlatformWeek(_, _, _, _, _, _)
\* the two inner loops of optimize_schedule_for_week: calls_left calls of get_optimal_time
PlatformWeek(ts, platform, current_time, daily_posts, calls_left, platform_schedule) ==
    IF calls_left <= 0 THEN Returned(platform_schedule)
    ELSE LET min_gap == IF daily_posts > 1 THEN 6 ELSE 24
             r == GetOptimalTime(ts, platform, current_time,
                                 LastHours(platform_schedule), min_gap)
         IN IF r.kind = "raised" THEN Raised
            ELSE PlatformWeek(ts, platform, current_time, daily_posts, calls_left - 1,
                              Append(platform_schedule, r.value))

\* one platform's list of the weekly schedule
WeekOf(ts, platform, current_time, posts_per_day) ==
    PlatformWeek(ts, platform, current_time, DailyPosts(posts_per_day, platform),
                 7 * DailyPosts(posts_per_day, platform), << >>)

\* optimize_schedule_for_week: platform -> recommendations
OptimizeScheduleForWeek(ts, platforms, posts_per_day, current_time) ==
    IF \E p \in Elems(platforms) : WeekOf(ts, p, current_time, posts_per_day).kind = "raised"
    THEN Raised
    ELSE Returned([p \in Elems(platforms) |-> WeekOf(ts, p, current_time, posts_per_day).value])

\* slot.score * slot.confidence, exactly, as three digits in base 10^4
Product(slot) ==
    LET B == 10000
        s1 == slot.score \div B
        s0 == slot.score % B
        c1 == slot.confidence \div B
        c0 == slot.confidence % B
        low == s0 * c0
        mid == s1 * c0 + s0 * c1 + low \div B
    IN <<s1 * c1 + mid \div B, mid % B, low % B>>

\* x >= y on products
ProductGE(x, y) ==
    \/ x[1] > y[1]
    \/ x[1] = y[1] /\ x[2] > y[2]
    \/ x[1] = y[1] /\ x[2] = y[2] /\ x[3] >= y[3]

RECURSIVE InsertByProduct(_, _)
InsertByProduct(sorted, slot) ==
    IF sorted = << >> THEN <<slot>>
    ELSE IF ProductGE(Product(Head(sorted)), Product(slot))
         THEN <<Head(sorted)>> \o InsertByProduct(Tail(sorted), slot)
    ELSE <<slot>> \o sorted

RECURSIVE SortByProduct(_)
\* sorted(..., key = score * confidence, reverse = True)
SortByProduct(slots) ==
    IF slots = << >> THEN << >>
    ELSE InsertByProduct(SortByProduct(SubSeq(slots, 1, Len(slots) - 1)), slots[Len(slots)])

RECURSIVE SumOf(_, _)
\* sum(slot.<field> for slot in slots)
SumOf(slots, field) ==
    IF slots = << >> THEN 0 ELSE Head(slots)[field] + SumOf(Tail(slots), field)

\* round(x, 3)
Round3(x) == ((x + Unit \div 2000) \div (Unit \div 1000)) * (Unit \div 1000)

short_day_names == <<"Mon", "Tue", "Wed", "Thu", "Fri", "Sat", "Sun">>
\* day_names[dow] raises IndexError outside -7..6
ValidDayIndex(dow) == dow \in -7..6

\* one platform's entry of platform_breakdown
PlatformAnalytics(slots) ==
    LET best == SubSeq(SortByProduct(slots), 1, Min(5, Len(slots)))
    IN [slot_count |-> Len(slots),
        avg_score |-> IF slots = << >> THEN 0 ELSE SumOf(slots, "score") \div Len(slots),
        avg_confidence |-> IF slots = << >> THEN 0
                           ELSE SumOf(slots, "confidence") \div Len(slots),
        best_times |-> [i \in 1..Len(best) |->
                           [time |-> <<short_day_names[(best[i].day_of_week % 7) + 1],
                                       best[i].hour>>,
                            score |-> Round3(best[i].score),
                            confidence |-> Round3(best[i].confidence),
                            samples |-> best[i].sample_count]]]

\* the slots of a platform, in the order of its dict
SlotList(ts, p) == [i \in 1..Len(SlotsOf(ts, p)) |-> SlotsOf(ts, p)[i].slot]

RECURSIVE AllSlotList(_, _)
\* all_slots: the slots of the platforms looked at
AllSlotList(ts, todo) ==
    IF todo = {} THEN << >>
    ELSE LET p == CHOOSE q \in todo : TRUE
         IN SlotList(ts, p) \o AllSlotList(ts, todo \ {p})

\* get_posting_analytics(platform); platform "" stands for None: every platform
\* of the store.  most_confident_slots keeps the products score * confidence
\* of the ten best slots.
GetPostingAnalytics(ts, platform) ==
    LET platforms == IF platform # "" THEN {platform} ELSE DOMAIN ts
        all_slots == AllSlotList(ts, platforms)
        top_slots == SubSeq(SortByProduct(all_slots), 1, Min(10, Len(all_slots)))
        shown == Elems(top_slots) \cup
                 UNION {Elems(SubSeq(SortByProduct(SlotList(ts, p)), 1,
                                     Min(5, Len(SlotList(ts, p))))) : p \in platforms}
    IN IF \E slot \in shown : ~ValidDayIndex(slot.day_of_week) THEN Raised
       ELSE Returned(
         [total_slots |-> Len(all_slots),
          high_performance_slots |->
              Cardinality({i \in 1..Len(all_slots) : 10 * all_slots[i].score > 7 * Unit}),
          average_score |-> IF all_slots = << >> THEN 0
                            ELSE SumOf(all_slots, "score") \div Len(all_slots),
          most_confident_slots |-> [i \in 1..Len(top_slots) |-> Product(top_slots[i])],
          platform_breakdown |-> [p \in platforms |-> PlatformAnalytics(SlotList(ts, p))]])

\* alpha = max(1, sample_count * score + 1)
BetaAlpha(slot) == Max(Unit, slot.sample_count * slot.score + Unit)
\* beta = max(1, sample_count * (1 - score) + 1)
BetaBeta(slot) == Max(Unit, slot.sample_count * (Unit - slot.score) + Unit)

\* a choice by point estimate: the first slot of the largest stored score
GetOptimalTimeGreedy(ts, platform, current_time, best) ==
    LET platform_slots == SlotsOf(ts, platform)
        top == CHOOSE i \in 1..Len(platform_slots) :
                  /\ \A j \in 1..Len(platform_slots) :
                        platform_slots[j].slot.score <= platform_slots[i].slot.score
                  /\ \A j \in 1..(i - 1) :
                        platform_slots[j].slot.score < platform_slots[i].slot.score
        hour == platform_slots[top].key[1]
        dow == platform_slots[top].key[2]
        slot == platform_slots[top].slot
        target_time == FallbackTime(hour, dow, current_time)
    IN IF platform_slots = << >> THEN GetOptimalTime(ts, platform, current_time, << >>, 2)
       ELSE IF ~ValidHour(hour) THEN Raised
       ELSE Returned(ScheduleRecommendation(
                platform, target_time, ConvertToLocalTime(target_time),
                slot.score, slot.confidence,
                <<"Thompson Sampling selected time (exploration/exploitation balance)">>,
                None))

\* get_optimal_time_with_exploration when the sample of the slot at position
\* best of the platform's dict is the largest: every Beta(alpha, beta) has all of
\* (0, 1) as its support, so each slot can come out on top
GetOptimalTimeWithExploration(ts, platform, current_time, best) ==
    LET platform_slots == SlotsOf(ts, platform)
        hour == platform_slots[best].key[1]
        dow == platform_slots[best].key[2]
        slot == platform_slots[best].slot
        target_time == FallbackTime(hour, dow, current_time)
    IN IF platform_slots = << >> THEN GetOptimalTime(ts, platform, current_time, << >>, 2)
       \* np.random.beta raises ValueError unless both parameters are above 0
       ELSE IF \E i \in 1..Len(platform_slots) :
                  ~(BetaAlpha(platform_slots[i].slot) > 0 /\ BetaBeta(platform_slots[i].slot) > 0)
            THEN Raised
       ELSE IF ~ValidHour(hour) THEN Raised
       ELSE Returned(ScheduleRecommendation(
                platform, target_time, ConvertToLocalTime(target_time),
                slot.score, slot.confidence,
                <<"Thompson Sampling selected time (exploration/exploitation balance)">>,
                None))

(***************************************************************************)
(* State                                                                   *)
(***************************************************************************)
VARIABLES
    time_slots,     \* self.time_slots
    slots_file,     \* data/time_slots.json
    patterns_file,  \* data/user_patterns.json
    writable,       \* whether open(..., 'w') in the data directory succeeds
    load_pending,   \* the task created by __init__ has not run yet
    now,            \* datetime.now(timezone.utc)
    start,          \* the instant of construction
    log,            \* the record_post_performance calls made so far
    tasks,          \* record_post_performance coroutines created and not yet run
    result          \* what the last call returned to its caller

vars == <<time_slots, slots_file, patterns_file, writable, load_pending, now, start, log,
          tasks, result>>

\* _save_data: the slots document, then the patterns; an open that fails
\* is logged and leaves both files as they were
SavedSlotsFile(ts) == IF writable THEN DumpSlots(ts) ELSE slots_file
SavedPatternsFile == IF writable THEN ValidFile([q \in {} |-> << >>]) ELSE patterns_file

(***************************************************************************)
(* record_post_performance                                                 *)
(***************************************************************************)
\* total_interactions / (views + 1)
EngagementRateViewsPlusOne(m) ==
    ((m.likes + m.comments + m.shares + m.saves) * Unit) \div (m.views + 1)

\* total_interactions / max(views, 1)
EngagementRate(m) ==
    ((m.likes + m.comments + m.shares + m.saves) * Unit) \div Max(m.views, 1)

\* the learning rate without its 0.3 cap: a plain running mean
LearningRateUncapped(n) == <<1, n + 1>>

\* alpha = min(0.3, 1.0 / (sample_count + 1)) as a fraction <<numerator, denominator>>
LearningRate(n) == IF 3 * (n + 1) > 10 THEN <<1, n + 1>> ELSE <<3, 10>>

\* the update without the (1 - alpha) weight on the old score
UpdatedScoreUnweighted(score, n, rate) ==
    LET a == LearningRate(n)
    IN score + (a[1] * rate) \div a[2]

\* (1 - alpha) * score + alpha * engagement_rate
UpdatedScore(score, n, rate) ==
    LET a == LearningRate(n)
    IN ((a[2] - a[1]) * score + a[1] * rate) \div a[2]

\* min(confidence + 0.05, 0.95)
UpdatedConfidence(c) == Min(c + ConfidenceStep, ConfidenceCap)

\* the slot record_post_performance leaves under the key of m
RecordedSlot(ts, m, t) ==
    LET slots == SlotsOf(ts, m.platform)
        i == KeyIndex(slots, m.hour, m.day_of_week)
        old == IF i # 0 THEN slots[i].slot
               ELSE TimeSlot(m.hour, m.day_of_week, m.platform,
                             NeutralScore, LowConfidence, 0, NeverUpdated)
    IN [old EXCEPT !.score = UpdatedScore(old.score, old.sample_count, EngagementRate(m)),
                   !.confidence = UpdatedConfidence(old.confidence),
                   !.sample_count = old.sample_count + 1,
                   !.last_updated = t]

\* the slots of the platform share the updated TimeSlot's timestamp
RecordedStoreStampsPlatform(ts, m, t) ==
    LET put == StorePut(ts, m.platform, m.hour, m.day_of_week, RecordedSlot(ts, m, t))
    IN [q \in DOMAIN put |->
          IF q # m.platform THEN put[q]
          ELSE [i \in 1..Len(put[q]) |->
                  [put[q][i] EXCEPT !.slot = [put[q][i].slot EXCEPT !.last_updated = t]]]]

RecordedStore(ts, m, t) ==
    StorePut(ts, m.platform, m.hour, m.day_of_week, RecordedSlot(ts, m, t))

(***************************************************************************)
(* Inputs                                                                  *)
(***************************************************************************)
PostMetrics(p, h, d, views, likes, comments, shares, saves) ==
    [platform |-> p, hour |-> h, day_of_week |-> d, views |-> views, likes |-> likes,
     comments |-> comments, shares |-> shares, saves |-> saves]

\* Wednesday 2024-05-29 19:00
StartTimes == {149 * 48 + 38}
\* the clock advances by twelve and a half hours
ClockSteps == {25}

\* posts recorded by a previous run of the program, 20 and 9 days before
PreviousRunStore ==
    RecordedStore(
        RecordedStore(EmptyStore, PostMetrics("instagram", 19, 2, 100, 30, 0, 0, 0), 128 * 48 + 39),
        PostMetrics("linkedin", 9, 1, 100, 5, 0, 0, 0), 139 * 48 + 19)

InitialSlotsFiles == {NoFile, CorruptFile, DumpSlots(PreviousRunStore)}
InitialPatternsFiles == {NoFile, CorruptFile}

\* the posts record_post_performance is called with
RecordedPosts ==
    { PostMetrics("instagram", 19, 2, 100, 4, 1, 0, 0),
      PostMetrics("instagram", 19, 2, 0, 3, 2, 0, 0),
      PostMetrics("instagram", 24, 2, 100, 5, 1, 0, 0),
      PostMetrics(UnknownPlatform, 8, 1, 100, 9, 0, 0, 0) }

QueriedPlatforms == {"instagram", UnknownPlatform}
QueriedExcludeHours == {<< >>, <<19>>}
QueriedPlatformLists == {<<"twitter", "linkedin">>, <<"tiktok", "instagram">>}
QueriedGaps == {2}

(***************************************************************************)
(* Actions                                                                 *)
(***************************************************************************)
Construct(files, patterns, w, t) ==
    /\ time_slots = EmptyStore
    /\ slots_file = files
    /\ patterns_file = patterns
    /\ writable = w
    /\ load_pending = TRUE
    /\ now = t
    /\ start = t
    /\ log = << >>
    /\ tasks = << >>
    /\ result = [op |-> "__init__"]

Init ==
    \E files \in InitialSlotsFiles, patterns \in InitialPatternsFiles, t \in StartTimes :
        Construct(files, patterns, TRUE, t)

\* the store after _load_data, and whether it went through the except branch
LoadOutcome ==
    IF slots_file = CorruptFile
    THEN [failed |-> TRUE, store |-> InitializeDefaultSlots(time_slots, now)]
    ELSE LET loaded == IF slots_file = NoFile THEN time_slots
                       ELSE LoadSlots(time_slots, slots_file.doc)
         IN IF patterns_file = CorruptFile
            THEN [failed |-> TRUE, store |-> InitializeDefaultSlots(loaded, now)]
            ELSE [failed |-> FALSE, store |-> loaded]

\* the task created by __init__ runs _load_data
LoadData ==
    /\ load_pending
    /\ load_pending' = FALSE
    /\ time_slots' = LoadOutcome.store
    /\ slots_file' = IF LoadOutcome.failed THEN SavedSlotsFile(LoadOutcome.store) ELSE slots_file
    /\ patterns_file' = IF LoadOutcome.failed THEN SavedPatternsFile ELSE patterns_file
    /\ result' = [op |-> "_load_data", failed |-> LoadOutcome.failed]
    /\ UNCHANGED <<writable, now, start, log, tasks>>

RecordPostPerformance(m, limit) ==
    /\ Len(log) < limit
    /\ time_slots' = RecordedStore(time_slots, m, now)
    /\ slots_file' = SavedSlotsFile(time_slots')
    /\ patterns_file' = SavedPatternsFile
    /\ log' = Append(log, m)
    /\ result' = [op |-> "record_post_performance", metrics |-> m, out |-> Returned(None)]
    /\ UNCHANGED <<writable, load_pending, now, start>>

Record == \E m \in RecordedPosts : RecordPostPerformance(m, MaxRecords) /\ UNCHANGED tasks

\* what a call that only reads the store leaves alone
ReadOnly == UNCHANGED <<slots_file, patterns_file, writable, load_pending, now, start, log, tasks>>

GetOptimalTimeCall(platforms, excludes) ==
    /\ \E p \in platforms, ex \in excludes :
          /\ result' = [op |-> "get_optimal_time", platform |-> p, exclude_hours |-> ex,
                        at |-> now,
                        out |-> GetOptimalTime(time_slots, p, now, ex, 2)]
          /\ time_slots' = StoreAfterGet(time_slots, p)
    /\ ReadOnly

GetMultiPlatformScheduleCall(lists, gaps) ==
    /\ \E ps \in lists, gap \in gaps :
          /\ result' = [op |-> "get_multi_platform_schedule", platforms |-> ps,
                        min_gap_hours |-> gap, at |-> now,
                        out |-> GetMultiPlatformSchedule(time_slots, ps, now, gap)]
          /\ time_slots' = StoreAfterGets(time_slots, ps)
    /\ ReadOnly

GetOptimalTimeQuery == GetOptimalTimeCall(QueriedPlatforms, QueriedExcludeHours)
GetMultiPlatformScheduleQuery == GetMultiPlatformScheduleCall(QueriedPlatformLists, QueriedGaps)

\* the data directory becomes read-only, or writable again
DiskFault ==
    /\ writable' = ~writable
    /\ UNCHANGED <<time_slots, slots_file, patterns_file, load_pending, now, start, log,
                   tasks, result>>

\* time passes
Tick ==
    /\ \E step \in ClockSteps :
          /\ now + step <= start + MaxElapsed
          /\ now' = now + step
    /\ UNCHANGED <<time_slots, slots_file, patterns_file, writable, load_pending, start, log,
                   tasks, result>>

Next ==
    \/ LoadData
    \/ Record
    \/ GetOptimalTimeQuery
    \/ GetMultiPlatformScheduleQuery
    \/ DiskFault
    \/ Tick

Spec == Init /\ [][Next]_vars

(***************************************************************************)
(* The queries as functions of the store and the clock: every instant of   *)
(* the week of Monday 2024-05-27, over stores the program reaches          *)
(***************************************************************************)
WeekStart == 147 * 48
WeekTimes == WeekStart..(WeekStart + 7 * 48 - 1)

\* the store after a failed load on Sunday 2024-05-26 10:xx
DefaultSeededStore == InitializeDefaultSlots(EmptyStore, 146 * 48 + 21)
\* a store holding a slot of a platform outside the default table
UnknownPlatformStore ==
    RecordedStore(EmptyStore, PostMetrics(UnknownPlatform, 8, 1, 100, 9, 0, 0, 0), 146 * 48 + 21)

QueryStores == {EmptyStore, DefaultSeededStore, PreviousRunStore, UnknownPlatformStore}
WeekExcludeHours == {<< >>, <<19>>, <<8, 9, 12, 17>>}
WeekPlatformLists == {<<"linkedin", "twitter">>, <<"twitter", "linkedin">>,
                      <<"tiktok", UnknownPlatform, "instagram">>}
WeekGaps == {1, 2}

InitQuery ==
    \E ts \in QueryStores, t \in WeekTimes :
        /\ time_slots = ts
        /\ slots_file = NoFile
        /\ patterns_file = NoFile
        /\ writable = TRUE
        /\ load_pending = FALSE
        /\ now = t
        /\ start = t
        /\ log = << >>
        /\ tasks = << >>
        /\ result = [op |-> "__init__"]

GetOptimalTimeWeek == GetOptimalTimeCall(Platforms, WeekExcludeHours)
GetMultiPlatformScheduleWeek == GetMultiPlatformScheduleCall(WeekPlatformLists, WeekGaps)

NextQuery == GetOptimalTimeWeek \/ GetMultiPlatformScheduleWeek

SpecQuery == InitQuery /\ [][NextQuery]_vars

(***************************************************************************)
(* Learning on one slot: posts recorded for (instagram, 19, Wednesday) on  *)
(* a store that has no slot for it                                         *)
(***************************************************************************)
\* engagement rates 0.05, 0.06 and 0.07
ScenarioPosts ==
    { PostMetrics("instagram", 19, 2, 100, 5, 0, 0, 0),
      PostMetrics("instagram", 19, 2, 100, 4, 2, 0, 0),
      PostMetrics("instagram", 19, 2, 100, 5, 0, 1, 1) }
\* engagement rates 0, 0.25, 1 and 5
ConstantPosts ==
    { PostMetrics("instagram", 19, 2, 0, 0, 0, 0, 0),
      PostMetrics("instagram", 19, 2, 8, 1, 1, 0, 0),
      PostMetrics("instagram", 19, 2, 3, 1, 1, 0, 1),
      PostMetrics("instagram", 19, 2, 0, 3, 2, 0, 0) }

InitScenario ==
    /\ time_slots = EmptyStore
    /\ slots_file = NoFile
    /\ patterns_file = NoFile
    /\ writable = TRUE
    /\ load_pending = FALSE
    /\ now = 149 * 48 + 38
    /\ start = now
    /\ log = << >>
    /\ tasks = << >>
    /\ result = [op |-> "__init__"]

RecordVarying ==
    \E m \in ScenarioPosts : RecordPostPerformance(m, MaxSamples) /\ UNCHANGED tasks

RecordConstant ==
    \E m \in ConstantPosts :
        /\ \A i \in 1..Len(log) : log[i] = m
        /\ RecordPostPerformance(m, MaxConstant)
        /\ UNCHANGED tasks

NextScenario == RecordVarying \/ RecordConstant \/ Tick

SpecScenario == InitScenario /\ [][NextScenario]_vars

(***************************************************************************)
(* Startup: the load task, records before and after it, disk faults        *)
(***************************************************************************)
NextStartup ==
    \/ LoadData
    \/ Record
    \/ DiskFault
    \/ Tick

SpecStartup == Init /\ [][NextStartup]_vars

(***************************************************************************)
(* The five calls that read the store, next to the two that write it       *)
(***************************************************************************)
MaxReaderRecords == 1

\* a platform no post is ever recorded for
AbsentPlatform == "threads"
ReaderPosts ==
    { PostMetrics("instagram", 19, 2, 100, 4, 1, 0, 0),
      PostMetrics("instagram", 19, 1, 0, 3, 2, 0, 0),
      PostMetrics(UnknownPlatform, 8, 1, 100, 2, 0, 0, 0) }
ReaderPlatforms == {"instagram", AbsentPlatform}
ReaderPlatformLists == {<<AbsentPlatform, "instagram">>}
\* posts_per_day: None (one post a day each), or two posts a day on instagram

GetOptimalTimeWithExplorationCall(platforms) ==
    /\ \E p \in platforms :
         \E best \in 1..Max(1, Len(SlotsOf(time_slots, p))) :
          /\ result' = [op |-> "get_optimal_time_with_exploration", platform |-> p,
                        at |-> now,
                        out |-> GetOptimalTimeWithExploration(time_slots, p, now, best)]
          /\ time_slots' = StoreAfterGet(time_slots, p)
    /\ ReadOnly

GetPostingAnalyticsCall(platforms) ==
    /\ \E p \in platforms \cup {""} :
          /\ result' = [op |-> "get_posting_analytics", platform |-> p,
                        out |-> GetPostingAnalytics(time_slots, p)]
          /\ time_slots' = IF p = "" THEN time_slots ELSE StoreAfterGet(time_slots, p)
    /\ ReadOnly

OptimizeScheduleForWeekCall(lists, posts) ==
    /\ \E ps \in lists, posts_per_day \in posts :
          /\ result' = [op |-> "optimize_schedule_for_week", platforms |-> ps,
                        posts_per_day |-> posts_per_day, at |-> now,
                        out |-> OptimizeScheduleForWeek(time_slots, ps, posts_per_day, now)]
          /\ time_slots' = StoreAfterGets(time_slots, ps)
    /\ ReadOnly

RecordBetweenReads ==
    \E m \in ReaderPosts : RecordPostPerformance(m, MaxReaderRecords) /\ UNCHANGED tasks

NextReaders ==
    \/ LoadData
    \/ RecordBetweenReads
    \/ GetOptimalTimeCall(ReaderPlatforms, {<< >>})
    \/ GetMultiPlatformScheduleCall(ReaderPlatformLists, {2})
    \/ GetOptimalTimeWithExplorationCall(ReaderPlatforms)
    \/ GetPostingAnalyticsCall(ReaderPlatforms)
    \/ OptimizeScheduleForWeekCall(ReaderPlatformLists,
                                   {[p \in {} |-> 1], [p \in {"instagram"} |-> 2]})
    \/ Tick

SpecReaders == Init /\ [][NextReaders]_vars

(***************************************************************************)
(* Concurrent records: record_post_performance coroutines put on the event *)
(* loop as tasks (asyncio.gather, create_task) on a fresh installation.    *)
(* A task runs from its start to its first await that suspends; the only   *)
(* awaits of record_post_performance and of _load_data are of coroutines   *)
(* that never suspend (_save_data, _initialize_default_slots), so each     *)
(* task runs to its end in one step.  The loop starts ready tasks in the   *)
(* order of their creation: the load task, created by __init__, runs       *)
(* before every record task; the record tasks are run in every order.      *)
(***************************************************************************)
MaxTasks == 3

ConcurrentPosts ==
    { PostMetrics("instagram", 19, 2, 100, 4, 1, 0, 0),
      PostMetrics("instagram", 19, 2, 100, 9, 0, 0, 0),
      PostMetrics("instagram", 20, 5, 100, 2, 0, 0, 0),
      PostMetrics("twitter", 9, 1, 100, 3, 0, 0, 0) }

\* a fresh installation: no slots file, or one that cannot be parsed
InitConcurrent ==
    \E files \in {NoFile, CorruptFile}, patterns \in {NoFile, CorruptFile}, t \in StartTimes :
        Construct(files, patterns, TRUE, t)

\* asyncio.create_task(scheduler.record_post_performance(m))
CreateTask ==
    /\ \E m \in ConcurrentPosts :
          /\ Len(tasks) + Len(log) < MaxTasks
          /\ tasks' = Append(tasks, m)
    /\ UNCHANGED <<time_slots, slots_file, patterns_file, writable, load_pending, now, start,
                   log, result>>

\* the loop runs one of the created tasks, to its end
RunTask ==
    /\ ~load_pending
    /\ \E i \in 1..Len(tasks) :
          /\ RecordPostPerformance(tasks[i], MaxTasks)
          /\ tasks' = SubSeq(tasks, 1, i - 1) \o SubSeq(tasks, i + 1, Len(tasks))

NextConcurrent ==
    \/ LoadData
    \/ CreateTask
    \/ RunTask
    \/ DiskFault
    \/ Tick

SpecConcurrent == InitConcurrent /\ [][NextConcurrent]_vars

(***************************************************************************)
(* get_multi_platform_schedule over lists of platforms in several orders   *)
(***************************************************************************)
ScheduleTimes == {WeekStart + 19, WeekStart + 1 * TicksPerDay + 16,
                  WeekStart + 2 * TicksPerDay + 39, WeekStart + 3 * TicksPerDay + 24,
                  WeekStart + 5 * TicksPerDay + 42, WeekStart + 6 * TicksPerDay + 30}
ScheduleLists ==
    { << >>,
      <<"instagram">>,
      <<"linkedin", "twitter", "instagram", "youtube", "tiktok">>,
      <<"tiktok", "youtube", "instagram", "twitter", "linkedin">>,
      <<AbsentPlatform, "tiktok", UnknownPlatform, "linkedin">>,
      <<UnknownPlatform, "linkedin", AbsentPlatform, "tiktok">>,
      <<"twitter", "instagram", "twitter">> }
ScheduleGaps == {1, 2}

InitSchedule ==
    \E ts \in QueryStores, t \in ScheduleTimes :
        /\ time_slots = ts
        /\ slots_file = NoFile
        /\ patterns_file = NoFile
        /\ writable = TRUE
        /\ load_pending = FALSE
        /\ now = t
        /\ start = t
        /\ log = << >>
        /\ tasks = << >>
        /\ result = [op |-> "__init__"]

GetMultiPlatformScheduleLists == GetMultiPlatformScheduleCall(ScheduleLists, ScheduleGaps)

NextSchedule == GetMultiPlatformScheduleLists \/ Tick

SpecSchedule == InitSchedule /\ [][NextSchedule]_vars

(***************************************************************************)
(* _calculate_dynamic_score as a function of the slot and the target time, *)
(* over slots with scores inside and outside [0, 1] and with and without   *)
(* last_updated, and get_optimal_time over a store that holds such slots   *)
(***************************************************************************)
\* the instant the slots of this part were last updated: Sunday 2024-05-26 10:30
ScoredAt == 146 * TicksPerDay + 21

ScoreSlots ==
    { TimeSlot(19, 2, "instagram", sc, cn[1], cn[2], lu) :
        sc \in {0 - (Unit \div 5), 0, Unit \div 2, Unit, 37 * (Unit \div 20)},
        cn \in {<<0, 0>>, <<19 * (Unit \div 20), 20>>},
        lu \in {NeverUpdated, ScoredAt} }

\* a store with a slot scored 1.85 by a record of a post without views, a slot
\* scored below 0 and a slot as TimeSlot's defaults leave it
OutOfRangeStore ==
    StorePut(
      StorePut(
        RecordedStore(EmptyStore, PostMetrics("instagram", 19, 2, 0, 3, 2, 0, 0), ScoredAt),
        "instagram", 8, 0,
        TimeSlot(8, 0, "instagram", 0 - (Unit \div 5), 0, 0, ScoredAt)),
      "instagram", 12, 5, TimeSlot(12, 5, "instagram", 0, 0, 0, NeverUpdated))

\* every 12.5 hours of the week of Monday 2024-05-27
ScoreTimes == {WeekStart + 25 * k : k \in 0..13}

InitScore ==
    \E ts \in {OutOfRangeStore, DefaultSeededStore}, t \in ScoreTimes :
        /\ time_slots = ts
        /\ slots_file = NoFile
        /\ patterns_file = NoFile
        /\ writable = TRUE
        /\ load_pending = FALSE
        /\ now = t
        /\ start = t
        /\ log = << >>
        /\ tasks = << >>
        /\ result = [op |-> "__init__"]

\* _calculate_dynamic_score(slot, target_time), target_time being now or the
\* slot's hour on one of the seven days from now on
CalculateDynamicScoreCall ==
    /\ \E slot \in ScoreSlots
                  \cup {time_slots[x[1]][x[2]].slot : x \in StoreEntries(time_slots)} :
         \E target_time \in {now} \cup
                {ReplaceHour(AddDays(now, day_offset), slot.hour) : day_offset \in 0..6} :
            result' = [op |-> "_calculate_dynamic_score", slot |-> slot,
                       target_time |-> target_time,
                       out |-> CalculateDynamicScore(slot, target_time)]
    /\ UNCHANGED <<time_slots, slots_file, patterns_file, writable, load_pending, now, start,
                   log, tasks>>

GetOptimalTimeScored == GetOptimalTimeCall({"instagram", "youtube"}, {<< >>, <<19>>})

NextScore == CalculateDynamicScoreCall \/ GetOptimalTimeScored

SpecScore == InitScore /\ [][NextScore]_vars

(***************************************************************************)
(* The day and event adjustments on every day of 2024                      *)
(***************************************************************************)
\* 12:30 on each day of 2024
CalendarTimes == {day * TicksPerDay + 25 : day \in 0..365}

InitCalendar ==
    \E t \in CalendarTimes :
        /\ time_slots = EmptyStore
        /\ slots_file = NoFile
        /\ patterns_file = NoFile
        /\ writable = TRUE
        /\ load_pending = FALSE
        /\ now = t
        /\ start = t
        /\ log = << >>
        /\ tasks = << >>
        /\ result = [op |-> "__init__"]

\* the two adjustments _calculate_dynamic_score asks for, for target_time = now
GetAdjustmentsCall ==
    /\ result' = [op |-> "_get_day_adjustment, _get_event_adjustment",
                  target_time |-> now,
                  day_adjustment |-> GetDayAdjustment(now),
                  event_adjustment |-> GetEventAdjustment(now)]
    /\ UNCHANGED <<time_slots, slots_file, patterns_file, writable, load_pending, now, start,
                   log, tasks>>

NextCalendar == GetAdjustmentsCall

SpecCalendar == InitCalendar /\ [][NextCalendar]_vars

(***************************************************************************)
(* Persistence round trip: _save_data, a new scheduler on the same data    *)
(* directory, its load task                                                *)
(***************************************************************************)
\* await self._save_data()
SaveData ==
    /\ slots_file' = SavedSlotsFile(time_slots)
    /\ patterns_file' = SavedPatternsFile
    /\ result' = [op |-> "_save_data"]
    /\ UNCHANGED <<time_slots, writable, load_pending, now, start, log, tasks>>

\* the program is started again: SmartScheduler() on the files as they are
Restart ==
    /\ ~load_pending
    /\ time_slots' = EmptyStore
    /\ load_pending' = TRUE
    /\ result' = [op |-> "__init__"]
    /\ UNCHANGED <<slots_file, patterns_file, writable, now, start, log, tasks>>

NextPersist ==
    \/ LoadData
    \/ Record
    \/ SaveData
    \/ Restart
    \/ Tick

SpecPersist == Init /\ [][NextPersist]_vars

(***************************************************************************)
(* Properties                                                              *)
(***************************************************************************)
\* every slot of a store, with its platform
AllSlots(ts) == {ts[x[1]][x[2]].slot : x \in StoreEntries(ts)}

\* the slot stored under (p, h, d), or the slot a first record starts from
SlotOrFresh(ts, p, h, d) ==
    LET i == KeyIndex(SlotsOf(ts, p), h, d)
    IN IF i # 0 THEN SlotsOf(ts, p)[i].slot
       ELSE TimeSlot(h, d, p, NeutralScore, LowConfidence, 0, NeverUpdated)

HasSlot(ts, p, h, d) == KeyIndex(SlotsOf(ts, p), h, d) # 0

\* C1: every stored slot has 0 <= score <= 1 and 0 <= confidence <= 1, after
\* any record_post_performance calls (interactions may exceed views, views
\* may be 0).
C1_ScoreAndConfidenceInUnitInterval ==
    \A slot \in AllSlots(time_slots) :
        /\ 0 <= slot.score /\ slot.score <= Unit
        /\ 0 <= slot.confidence /\ slot.confidence <= Unit

\* C2: get_optimal_time for a platform of the default table never raises and
\* always returns a recommendation, from every reachable store, at every
\* time, for every exclude_hours list.
C2_GetOptimalTimeAlwaysReturns ==
    (result.op = "get_optimal_time" /\ result.platform \in DefaultPlatforms)
        => result.out.kind = "returned"

\* circular distance of two hours of the day
HourDistance(a, b) == Min((a - b) % 24, (b - a) % 24)

\* C3: get_multi_platform_schedule never returns two recommendations whose
\* hours of the day are within min_gap_hours of each other (modulo 24).
C3_ScheduleKeepsHourGap ==
    (result.op = "get_multi_platform_schedule" /\ result.out.kind = "returned")
        => \A i, j \in 1..Len(result.out.value) :
               i < j => HourDistance(Hour(result.out.value[i].datetime_utc),
                                     Hour(result.out.value[j].datetime_utc))
                        > result.min_gap_hours

\* C4: from one state to the next the confidence of every slot does not
\* decrease, and it never exceeds 0.95, over records and the startup load.
C4_ConfidenceNeverDecreases ==
    [][\A slot \in AllSlots(time_slots) :
          LET next == SlotOrFresh(time_slots', slot.platform, slot.hour, slot.day_of_week)
          IN /\ HasSlot(time_slots', slot.platform, slot.hour, slot.day_of_week)
             /\ next.confidence >= slot.confidence
             /\ next.confidence <= ConfidenceCap]_vars

\* C5: the sample_count of every slot never decreases, and a
\* record_post_performance call for a key raises it by exactly 1.
C5_SampleCountGrowsByOne ==
    [][/\ \A slot \in AllSlots(time_slots) :
             SlotOrFresh(time_slots', slot.platform, slot.hour, slot.day_of_week).sample_count
                 >= slot.sample_count
       /\ log' # log =>
             LET m == log'[Len(log')]
             IN SlotOrFresh(time_slots', m.platform, m.hour, m.day_of_week).sample_count
                = SlotOrFresh(time_slots, m.platform, m.hour, m.day_of_week).sample_count + 1]_vars

\* C6: once the startup load has run, every platform of the default table
\* has at least one slot, whatever the state of the slots file was.
C6_EveryPlatformHasASlotAfterLoad ==
    ~load_pending => \A p \in DefaultPlatforms : SlotsOf(time_slots, p) # << >>

\* the call in result found no candidate (and did not raise)
NoCandidates ==
    /\ result.op = "get_optimal_time"
    /\ ~CandidateSlotsRaise(time_slots, result.platform, result.at, result.exclude_hours)
    /\ GetCandidateSlots(time_slots, result.platform, result.at, result.exclude_hours, 2) = << >>

OnTheHour(t, h, d) == t % TicksPerHour = 0 /\ Hour(t) = h /\ Weekday(t) = d

\* the first instant strictly after t that is hour h:00 of weekday d
NextOccurrence(h, d, t) ==
    CHOOSE x \in (t + 1)..(t + 8 * TicksPerDay) :
        /\ OnTheHour(x, h, d)
        /\ \A y \in (t + 1)..(x - 1) : ~OnTheHour(y, h, d)

\* C7: with no candidate for a platform of the default table,
\* get_optimal_time returns the platform's first default slot at its next
\* occurrence strictly after now, with score 0.5 and confidence 0.1.
C7_FallbackIsNextOccurrenceOfFirstDefault ==
    (NoCandidates /\ result.platform \in DefaultPlatforms) =>
        /\ result.out.kind = "returned"
        /\ result.out.value.datetime_utc =
               NextOccurrence(platform_defaults[result.platform][1][1],
                              platform_defaults[result.platform][1][2], result.at)
        /\ result.out.value.score = Unit \div 2
        /\ result.out.value.confidence = Unit \div 10

\* a fallback that had to move a whole week ahead: the default hour of
\* today has started
C7_Witness ==
    /\ NoCandidates
    /\ result.platform = "instagram"
    /\ Weekday(result.at) = 0 /\ Hour(result.at) = 19
    /\ result.out.kind = "returned"
    /\ result.out.value.datetime_utc > result.at + 6 * TicksPerDay

\* engagement rates of the recorded posts, in hundredths
LogRates == [i \in 1..Len(log) |-> (log[i].likes + log[i].comments + log[i].shares + log[i].saves)]
ScenarioB == LogRates = <<5, 6, 5, 7, 6>> /\ \A i \in 1..Len(log) : log[i] \in ScenarioPosts

\* C8 as stated: after rates 0.05, 0.06, 0.05, 0.07, 0.06 on a fresh slot the
\* score is within 0.005 of 0.06 and sample_count = 5.
C8_ScenarioScoreNearSixPercent ==
    ScenarioB =>
        LET slot == SlotOrFresh(time_slots, "instagram", 19, 2)
        IN /\ Abs(slot.score - 6 * (Unit \div 100)) <= 5 * (Unit \div 1000)
           /\ slot.sample_count = 5

\* C8 amended: after rates 0.05, 0.06, 0.05, 0.07, 0.06 on a fresh slot the
\* score is 0.14987 (0.5 moved by the rates 0.3, 0.3, 0.3, 1/4, 1/5) and
\* sample_count = 5.
C8_ScenarioScoreIs14987 ==
    ScenarioB =>
        LET slot == SlotOrFresh(time_slots, "instagram", 19, 2)
        IN /\ HasSlot(time_slots, "instagram", 19, 2)
           /\ slot.score = 14987 * (Unit \div 100000)
           /\ slot.sample_count = 5

C8_Witness == ScenarioB /\ HasSlot(time_slots, "instagram", 19, 2)

\* the log holds n >= 1 posts with one engagement rate, all for one slot
ConstantLog ==
    /\ Len(log) >= 1
    /\ \A i \in 1..Len(log) : log[i] = log[1]

\* C9: a record moves the score towards the engagement rate of the post,
\* never away from it and never past it; with a constant rate r the
\* distance after n >= 3 records on a fresh slot is at most
\* 1.029 * |0.5 - r| / n (up to the rounding of n divisions), so it falls
\* below every epsilon.
C9_ScoreConvergesToRate ==
    /\ [][log' # log =>
             LET m == log'[Len(log')]
                 r == EngagementRate(m)
                 old == SlotOrFresh(time_slots, m.platform, m.hour, m.day_of_week).score
                 new == SlotOrFresh(time_slots', m.platform, m.hour, m.day_of_week).score
             IN /\ Abs(new - r) <= Abs(old - r)
                /\ old >= r => new >= r
                /\ old <= r => new <= r]_vars
    /\ [](ConstantLog /\ Len(log) >= 3 =>
             LET m == log[1]
                 r == EngagementRate(m)
                 n == Len(log)
                 score == SlotOrFresh(time_slots, m.platform, m.hour, m.day_of_week).score
             IN n * Abs(score - r) <= MulDiv(Abs(NeutralScore - r), 1029, 1000) + n * n)

\* ten posts with engagement rate 5 recorded: the score has come from 0.5
\* to within 0.5 of 5
C9_Witness ==
    /\ ConstantLog /\ Len(log) >= MaxConstant
    /\ EngagementRate(log[1]) = 5 * Unit
    /\ Abs(SlotOrFresh(time_slots, "instagram", 19, 2).score - 5 * Unit) <= Unit \div 2
    /\ SlotOrFresh(time_slots, "instagram", 19, 2).score > 4 * Unit

\* C10 as stated: get_optimal_time for a platform outside the default table
\* returns an error, not a recommendation.
C10_UnknownPlatformIsAnError ==
    (result.op = "get_optimal_time" /\ result.platform \notin DefaultPlatforms)
        => result.out.kind = "raised"

\* C10 amended: get_optimal_time for a platform outside the default table
\* that has no candidate slot returns no error but the fallback
\* recommendation: the next Tuesday 12:00 after now, score 0.5, confidence 0.1.
C10_UnknownPlatformGetsTuesdayNoon ==
    (NoCandidates /\ result.platform \notin DefaultPlatforms) =>
        /\ result.out.kind = "returned"
        /\ result.out.value.platform = result.platform
        /\ result.out.value.datetime_utc = NextOccurrence(12, 1, result.at)
        /\ result.out.value.score = Unit \div 2
        /\ result.out.value.confidence = Unit \div 10

C10_Witness ==
    /\ NoCandidates
    /\ result.platform = UnknownPlatform
    /\ result.out.kind = "returned"
    /\ Weekday(result.out.value.datetime_utc) = 1

\* the calls of the log up to position i that target the key of log[i]
CallsOnKey(i) ==
    Cardinality({j \in 1..i : /\ log[j].platform = log[i].platform
                              /\ log[j].hour = log[i].hour
                              /\ log[j].day_of_week = log[i].day_of_week})

\* the persisted store holds at least n samples for (p, h, d)
FileHolds(p, h, d, n) ==
    /\ slots_file.state = "valid"
    /\ LET ts == LoadSlots(EmptyStore, slots_file.doc)
       IN HasSlot(ts, p, h, d) /\ SlotOrFresh(ts, p, h, d).sample_count >= n

\* the store in memory holds at least n samples for (p, h, d)
MemoryHolds(p, h, d, n) ==
    HasSlot(time_slots, p, h, d) /\ SlotOrFresh(time_slots, p, h, d).sample_count >= n

\* a step that is a record_post_performance call whose save fails
FailedSaveStep == log' # log /\ ~writable

\* a step that is a get_optimal_time call
GetOptimalTimeStep ==
    /\ result'.op = "get_optimal_time"
    /\ log' = log /\ load_pending' = load_pending /\ now' = now /\ writable' = writable

\* C11: when the save fails during record_post_performance the caller gets
\* no error and the slot in memory keeps the update (score, confidence,
\* sample_count + 1, last_updated), and every later get_optimal_time reads a
\* store that still holds each update the file does not hold.
C11_FailedSaveKeepsUpdateInMemory ==
    /\ [][FailedSaveStep =>
            LET m == log'[Len(log')]
            IN /\ result'.out = Returned(None)
               /\ slots_file' = slots_file
               /\ HasSlot(time_slots', m.platform, m.hour, m.day_of_week)
               /\ SlotOrFresh(time_slots', m.platform, m.hour, m.day_of_week)
                    = RecordedSlot(time_slots, m, now)
               /\ RecordedSlot(time_slots, m, now).sample_count
                    = SlotOrFresh(time_slots, m.platform, m.hour, m.day_of_week).sample_count + 1
               /\ RecordedSlot(time_slots, m, now).last_updated = now]_vars
    /\ [][GetOptimalTimeStep =>
            \A i \in 1..Len(log) :
                LET m == log[i]
                IN FileHolds(m.platform, m.hour, m.day_of_week, CallsOnKey(i))
                   \/ MemoryHolds(m.platform, m.hour, m.day_of_week, CallsOnKey(i))]_vars

\* the step in which the load task runs
LoadStep == load_pending /\ ~load_pending'

\* the load fails: a file that is there cannot be parsed
LoadFails ==
    \/ slots_file.state = "corrupt"
    \/ patterns_file.state = "corrupt"

\* C12: when the load of the persisted store fails, also after slots were
\* read from the slots file, the load raises nothing and the store then
\* holds, for every platform of the default table, each of its default
\* (hour, dow) slots with score 0.5, confidence 0.1 and sample_count 0; the
\* default lists of two platforms differ.
C12_FailedLoadLeavesDefaults ==
    /\ [][(LoadStep /\ LoadFails) =>
            /\ result' = [op |-> "_load_data", failed |-> TRUE]
            /\ \A p \in {"instagram", "youtube", "tiktok", "twitter", "linkedin"} :
                 /\ Len(platform_defaults[p]) = 5
                 /\ \A i \in 1..Len(platform_defaults[p]) :
                      LET h == platform_defaults[p][i][1]
                          d == platform_defaults[p][i][2]
                          slot == SlotOrFresh(time_slots', p, h, d)
                      IN /\ HasSlot(time_slots', p, h, d)
                         /\ slot.hour = h /\ slot.day_of_week = d /\ slot.platform = p
                         /\ slot.score = Unit \div 2
                         /\ slot.confidence = Unit \div 10
                         /\ slot.sample_count = 0]_vars
    /\ [](\A p, q \in DOMAIN platform_defaults :
            p # q => platform_defaults[p] # platform_defaults[q])

\* a load that failed on the patterns file after the slots file was read,
\* with a record made before it
C12_Witness ==
    /\ result = [op |-> "_load_data", failed |-> TRUE]
    /\ slots_file.state = "valid"
    /\ patterns_file.state = "corrupt"
    /\ log # << >>
    /\ HasSlot(time_slots, "linkedin", 9, 1)

ReaderOps ==
    {"get_optimal_time", "get_multi_platform_schedule", "get_optimal_time_with_exploration",
     "get_posting_analytics", "optimize_schedule_for_week"}

\* a step that is one of the five reading calls
ReaderStep ==
    /\ result'.op \in ReaderOps
    /\ log' = log /\ load_pending' = load_pending

\* C13: get_optimal_time, get_multi_platform_schedule,
\* get_optimal_time_with_exploration, get_posting_analytics and
\* optimize_schedule_for_week leave every slot, the set of slot keys and the
\* set of platform keys of the store unchanged, for platforms the store has
\* and for platforms it does not have; and no step of any operation removes
\* a slot or a platform key.
C13_ReadersLeaveStoreUnchanged ==
    /\ [][ReaderStep =>
            /\ DOMAIN time_slots' = DOMAIN time_slots
            /\ \A p \in DOMAIN time_slots : time_slots'[p] = time_slots[p]]_vars
    /\ [][/\ DOMAIN time_slots \subseteq DOMAIN time_slots'
          /\ \A slot \in AllSlots(time_slots) :
                HasSlot(time_slots', slot.platform, slot.hour, slot.day_of_week)]_vars

\* a weekly schedule was computed for a platform the store does not have and
\* for one it has, after a record
C13_Witness ==
    /\ result.op = "optimize_schedule_for_week"
    /\ result.out.kind = "returned"
    /\ AbsentPlatform \notin DOMAIN time_slots
    /\ HasSlot(time_slots, "instagram", 19, 2)
    /\ log # << >>

\* the calls of the log that target the key of m
CallsFor(m) ==
    Cardinality({j \in 1..Len(log) : /\ log[j].platform = m.platform
                                     /\ log[j].hour = m.hour
                                     /\ log[j].day_of_week = m.day_of_week})

\* C14: however the record_post_performance tasks issued together on the
\* event loop are interleaved, no update is lost: once all of them have
\* finished every targeted slot is in the store and its sample_count is the
\* number of calls that targeted it; each task that runs adds one sample to
\* its slot and leaves the sample counts of all other slots alone.
C14_NoConcurrentRecordIsLost ==
    /\ [](tasks = << >> =>
            \A i \in 1..Len(log) :
                /\ HasSlot(time_slots, log[i].platform, log[i].hour, log[i].day_of_week)
                /\ SlotOrFresh(time_slots, log[i].platform, log[i].hour,
                               log[i].day_of_week).sample_count = CallsFor(log[i]))
    /\ [][log' # log =>
            LET m == log'[Len(log')]
            IN /\ SlotOrFresh(time_slots', m.platform, m.hour, m.day_of_week).sample_count
                    = SlotOrFresh(time_slots, m.platform, m.hour, m.day_of_week).sample_count + 1
               /\ \A slot \in AllSlots(time_slots) :
                    (<<slot.platform, slot.hour, slot.day_of_week>>
                        # <<m.platform, m.hour, m.day_of_week>>)
                    => SlotOrFresh(time_slots', slot.platform, slot.hour, slot.day_of_week)
                         = slot]_vars

\* three tasks were created before any of them ran, two of them for the same
\* slot and one for another platform, and all have finished
C14_Witness ==
    /\ tasks = << >>
    /\ Len(log) = 3
    /\ result.op = "record_post_performance"
    /\ SlotOrFresh(time_slots, "instagram", 19, 2).sample_count = 2
    /\ SlotOrFresh(time_slots, "twitter", 9, 1).sample_count = 1

PriorityOrder == <<"linkedin", "twitter", "instagram", "youtube", "tiktok">>
\* the place of a platform in the priority order, 6 for every other platform
Rank(p) ==
    IF \E i \in 1..5 : PriorityOrder[i] = p THEN CHOOSE i \in 1..5 : PriorityOrder[i] = p ELSE 6
IsOther(p) == Rank(p) = 6
Occurrences(list, p) == Cardinality({i \in 1..Len(list) : list[i] = p})

\* the platforms of the recommendations of a returned schedule, in order
ScheduledPlatforms == [i \in 1..Len(result.out.value) |-> result.out.value[i].platform]

\* C15: get_multi_platform_schedule returns one recommendation per entry of
\* the input list, in the order linkedin, twitter, instagram, youtube,
\* tiktok, then all other platforms in their input order, whatever the order
\* of the input; the recommendation at position i is for the i-th platform
\* of that order.
C15_ScheduleFollowsPriorityOrder ==
    (result.op = "get_multi_platform_schedule" /\ result.out.kind = "returned") =>
        /\ Len(result.out.value) = Len(result.platforms)
        /\ \A p \in Elems(result.platforms) \cup Elems(ScheduledPlatforms) :
              Occurrences(ScheduledPlatforms, p) = Occurrences(result.platforms, p)
        /\ \A i, j \in 1..Len(ScheduledPlatforms) :
              i < j => Rank(ScheduledPlatforms[i]) <= Rank(ScheduledPlatforms[j])
        /\ SelectSeq(ScheduledPlatforms, IsOther) = SelectSeq(result.platforms, IsOther)

\* a schedule for an input that starts with a platform outside the table and
\* lists tiktok ahead of linkedin
C15_Witness ==
    /\ result.op = "get_multi_platform_schedule"
    /\ result.out.kind = "returned"
    /\ result.platforms = <<AbsentPlatform, "tiktok", UnknownPlatform, "linkedin">>
    /\ ScheduledPlatforms = <<"linkedin", "tiktok", AbsentPlatform, UnknownPlatform>>

\* C16: every slot is stored under a key (platform, hour, dow) of its own,
\* with hour in 0..23 and dow in 0..6, and carries the platform, hour and
\* day_of_week of its key; this holds after any record_post_performance
\* calls, whatever their PostMetrics.
C16_SlotsKeyedByHourAndDay ==
    \A p \in DOMAIN time_slots :
        \A i, j \in 1..Len(time_slots[p]) :
            /\ time_slots[p][i].key[1] \in 0..23
            /\ time_slots[p][i].key[2] \in 0..6
            /\ time_slots[p][i].slot.hour = time_slots[p][i].key[1]
            /\ time_slots[p][i].slot.day_of_week = time_slots[p][i].key[2]
            /\ time_slots[p][i].slot.platform = p
            /\ (i # j => time_slots[p][i].key # time_slots[p][j].key)

\* the candidates of the get_optimal_time call whose result is held
ResultCandidates ==
    GetCandidateSlots(time_slots, result.platform, result.at, result.exclude_hours, 2)

GetOptimalTimeReturned == result.op = "get_optimal_time" /\ result.out.kind = "returned"

\* alts are the candidates ranked second to fourth by descending score, the
\* chosen candidate not among them, none of them above the recommendation
RankedSecondToFourth(alts, rec, candidates) ==
    /\ Len(alts) = Min(3, Len(candidates) - 1)
    /\ \A i \in 1..Len(alts) :
          /\ alts[i] \in Elems(candidates)
          /\ alts[i].datetime # rec.datetime_utc
          /\ alts[i].score <= rec.score
          /\ \A j \in 1..Len(alts) :
                /\ (i # j => alts[i].datetime # alts[j].datetime)
                /\ (i < j => alts[i].score >= alts[j].score)
          /\ \A c \in Elems(candidates) :
                (c.datetime # rec.datetime_utc
                    /\ \A j \in 1..Len(alts) : c.datetime # alts[j].datetime)
                => c.score <= alts[i].score

\* C17 as stated: every recommendation of get_optimal_time carries a list of
\* at most 3 alternatives; with candidates these are the candidates ranked
\* second to fourth by descending score, never the chosen one, each with a
\* score not above the recommendation's.
C17_AlternativesAreAList ==
    GetOptimalTimeReturned =>
        LET rec == result.out.value
        IN /\ ~rec.alternative_slots.none
           /\ Len(rec.alternative_slots.list) <= 3
           /\ (ResultCandidates # << >>
                 => RankedSecondToFourth(rec.alternative_slots.list, rec, ResultCandidates))

\* C17, amended: with candidates the recommendation carries the list of the
\* candidates ranked second to fourth by descending score (at most 3, never
\* the chosen one, none scored above the recommendation); without candidates
\* the fallback recommendation carries None in place of a list.
C17_AlternativesListOrNone ==
    GetOptimalTimeReturned =>
        LET rec == result.out.value
        IN IF ResultCandidates = << >>
           THEN rec.alternative_slots = None
           ELSE /\ ~rec.alternative_slots.none
                /\ Len(rec.alternative_slots.list) <= 3
                /\ RankedSecondToFourth(rec.alternative_slots.list, rec, ResultCandidates)

\* a recommendation with three alternatives out of more than four candidates
C17_Witness ==
    /\ GetOptimalTimeReturned
    /\ Len(ResultCandidates) > 4
    /\ Len(result.out.value.alternative_slots.list) = 3

\* the position in the candidate list of the first candidate of maximal score
FirstBest(candidates) ==
    CHOOSE i \in 1..Len(candidates) :
        /\ \A j \in 1..Len(candidates) : candidates[j].score <= candidates[i].score
        /\ \A j \in 1..(i - 1) : candidates[j].score < candidates[i].score

\* candidates are generated by day offset ascending, then in the order of the
\* platform's dict
GeneratedInOrder(candidates) ==
    \A i, j \in 1..Len(candidates) :
        i < j =>
            \/ DayIndex(candidates[i].datetime) < DayIndex(candidates[j].datetime)
            \/ /\ DayIndex(candidates[i].datetime) = DayIndex(candidates[j].datetime)
               /\ KeyIndex(SlotsOf(time_slots, result.platform),
                           candidates[i].hour, candidates[i].day_of_week)
                    < KeyIndex(SlotsOf(time_slots, result.platform),
                               candidates[j].hour, candidates[j].day_of_week)

\* C18: with at least one candidate get_optimal_time returns the candidate
\* of maximal dynamic score and, among candidates of equal maximal score, the
\* one generated first: day offset ascending, then insertion order of the
\* store.
C18_BestIsFirstOfMaximalScore ==
    (GetOptimalTimeReturned /\ ResultCandidates # << >>) =>
        LET best == ResultCandidates[FirstBest(ResultCandidates)]
        IN /\ GeneratedInOrder(ResultCandidates)
           /\ result.out.value.datetime_utc = best.datetime
           /\ result.out.value.score = best.score
           /\ result.out.value.confidence = best.confidence
           /\ \A c \in Elems(ResultCandidates) : c.score <= result.out.value.score

\* two candidates share the maximal score, and the one returned is the later
\* instant of the two because its slot comes first in the store
C18_Witness ==
    /\ GetOptimalTimeReturned
    /\ \E i, j \in 1..Len(ResultCandidates) :
          /\ i < j
          /\ ResultCandidates[i].score = ResultCandidates[j].score
          /\ ResultCandidates[i].datetime = result.out.value.datetime_utc
          /\ ResultCandidates[j].datetime < ResultCandidates[i].datetime

\* C19: every candidate of _get_candidate_slots lies strictly after now and
\* less than 7 days after now, at minute 0 of its slot's hour, on a date whose
\* weekday is its slot's day_of_week; its slot is a slot of the requested
\* platform and its hour is not in excludeHours.
C19_CandidatesAreFutureSlotInstants ==
    GetOptimalTimeReturned =>
        \A i \in 1..Len(ResultCandidates) :
            LET c == ResultCandidates[i]
            IN /\ c.datetime > result.at
               /\ c.datetime < result.at + 7 * TicksPerDay
               /\ c.datetime % TicksPerHour = 0
               /\ Hour(c.datetime) = c.base_slot.hour
               /\ Weekday(c.datetime) = c.base_slot.day_of_week
               /\ c.hour = c.base_slot.hour
               /\ c.day_of_week = c.base_slot.day_of_week
               /\ c.base_slot.platform = result.platform
               /\ c.base_slot \in AllSlots(time_slots)
               /\ c.hour \notin Elems(result.exclude_hours)

\* candidates were computed at an instant exactly on the hour of a slot of
\* the platform, with hours excluded, and some slot passed
C19_Witness ==
    /\ GetOptimalTimeReturned
    /\ result.exclude_hours # << >>
    /\ result.at % TicksPerHour = 0
    /\ HasSlot(time_slots, result.platform, Hour(result.at), Weekday(result.at))
    /\ Hour(result.at) \notin Elems(result.exclude_hours)
    /\ ResultCandidates # << >>

\* values of min_gap_hours: the ones the code passes (2, 6, 24) and 0, 1
MinGapValues == {0, 1, 2, 6, 24}

C21_DynamicScoreInUnitInterval ==
    /\ result.op = "_calculate_dynamic_score" => (0 <= result.out /\ result.out <= Unit)
    /\ (result.op = "get_optimal_time" /\ result.out.kind = "returned")
          => /\ 0 <= result.out.value.score
             /\ result.out.value.score <= Unit
             /\ result.out.value.alternative_slots.none
                  \/ \A i \in 1..Len(result.out.value.alternative_slots.list) :
                        /\ 0 <= result.out.value.alternative_slots.list[i].score
                        /\ result.out.value.alternative_slots.list[i].score <= Unit

\* get_optimal_time returned, with score 1, the slot whose stored score is 1.85
C21_Witness ==
    /\ result.op = "get_optimal_time"
    /\ result.out.kind = "returned"
    /\ result.out.value.score = Unit
    /\ \E slot \in AllSlots(time_slots) :
          /\ slot.score > Unit
          /\ slot.platform = result.platform
          /\ slot.hour = Hour(result.out.value.datetime_utc)
          /\ slot.day_of_week = Weekday(result.out.value.datetime_utc)

AdjustmentsReturned == result.op = "_get_day_adjustment, _get_event_adjustment"

\* C22: the day adjustment is -0.1 on a Monday, else +0.05 on a Friday, else
\* -0.05 on the first day of a month, else 0 (a Monday or Friday that is a
\* 1st gets the weekday adjustment only); the event adjustment is +0.02
\* exactly on Saturday and Sunday and is added independently, so a weekend
\* 1st of a month nets -0.03.
C22_DayAndEventAdjustments ==
    AdjustmentsReturned =>
        LET t == result.target_time
            monday == Weekday(t) = 0
            friday == Weekday(t) = 4
            weekend == Weekday(t) \in {5, 6}
            first == DayOfMonth(t) = 1
        IN /\ monday => result.day_adjustment = 0 - 1000000
           /\ friday => result.day_adjustment = 500000
           /\ (first /\ ~monday /\ ~friday) => result.day_adjustment = 0 - 500000
           /\ (~first /\ ~monday /\ ~friday) => result.day_adjustment = 0
           /\ weekend => result.event_adjustment = 200000
           /\ ~weekend => result.event_adjustment = 0
           /\ (weekend /\ first)
                => result.day_adjustment + result.event_adjustment = 0 - 300000

\* the adjustments of Monday 2024-07-01: a Monday that is a 1st
C22_Witness ==
    /\ AdjustmentsReturned
    /\ result.target_time = 182 * TicksPerDay + 25
    /\ result.day_adjustment = 0 - 1000000
    /\ result.event_adjustment = 0

\* the number of slots of a store
SlotCount(ts) == Cardinality(StoreEntries(ts))

\* (likes + comments + shares + saves) / max(views, 1) of a post
RateOf(m) ==
    ((m.likes + m.comments + m.shares + m.saves) * Unit)
        \div (IF m.views >= 1 THEN m.views ELSE 1)

\* (1 - a) * score + a * rate with a = 0.3 for n in {0, 1, 2} and a = 1 / (n + 1) from n = 3 on
ExpectedScore(score, n, rate) ==
    IF n <= 2 THEN (7 * score + 3 * rate) \div 10
    ELSE (n * score + rate) \div (n + 1)

\* C23: record_post_performance for a key the store does not have creates
\* exactly one slot, starting from score 0.5, confidence 0.1, sample_count 0,
\* and updates it in the same call; for a slot with sample_count n the call
\* sets score' = (1 - a) * score + a * rate with a = min(0.3, 1 / (n + 1))
\* and rate = (likes + comments + shares + saves) / max(views, 1): a is 0.3
\* for n in {0, 1, 2}, 1 / (n + 1) from n = 3 on, and never grows with n.
C23_RecordCreatesAndAverages ==
    /\ [][log' # log =>
            LET m == log'[Len(log')]
                had == HasSlot(time_slots, m.platform, m.hour, m.day_of_week)
                old == IF had THEN SlotOrFresh(time_slots, m.platform, m.hour, m.day_of_week)
                       ELSE [score |-> 5000000, confidence |-> 1000000, sample_count |-> 0]
                new == SlotOrFresh(time_slots', m.platform, m.hour, m.day_of_week)
            IN /\ HasSlot(time_slots', m.platform, m.hour, m.day_of_week)
               /\ SlotCount(time_slots') = SlotCount(time_slots) + (IF had THEN 0 ELSE 1)
               /\ new.sample_count = old.sample_count + 1
               /\ new.score = ExpectedScore(old.score, old.sample_count, RateOf(m))
               /\ ~had => new.confidence = 1500000]_vars
    /\ [](\A n \in 0..12 :
            /\ n <= 2 => LearningRate(n) = <<3, 10>>
            /\ n >= 3 => LearningRate(n) = <<1, n + 1>>
            /\ LearningRate(n + 1)[1] * LearningRate(n)[2]
                 <= LearningRate(n)[1] * LearningRate(n + 1)[2])

\* the fifth record on the slot the first record created: a = 1/5
C23_Witness ==
    /\ result.op = "record_post_performance"
    /\ Len(log) = 5
    /\ SlotCount(time_slots) = 1
    /\ SlotOrFresh(time_slots, "instagram", 19, 2).sample_count = 5

ExplorationStep ==
    /\ result'.op = "get_optimal_time_with_exploration"
    /\ result' # result
    /\ SlotsOf(time_slots, result'.platform) # << >>

ExploredSlot(i) ==
    LET e == SlotsOf(time_slots, result'.platform)[i]
        rec == result'.out.value
    IN /\ result'.out.kind = "returned"
       /\ Hour(rec.datetime_utc) = e.key[1]
       /\ Weekday(rec.datetime_utc) = e.key[2]
       /\ rec.datetime_utc = NextOccurrence(e.key[1], e.key[2], now)
       /\ rec.datetime_utc > now
       /\ rec.score = e.slot.score
       /\ rec.confidence = e.slot.confidence

\* C24: get_optimal_time_with_exploration, for a platform with at least one
\* slot, gives every slot Beta parameters alpha = max(1, n * score + 1) and
\* beta = max(1, n * (1 - score) + 1), both at least 1, and returns the
\* recommendation of one stored slot: that slot's hour and weekday at its next
\* occurrence strictly after now, with the stored score and confidence; and
\* each stored slot of the platform can be the one returned.
C24_ExplorationReturnsASampledSlot ==
    /\ [](\A slot \in AllSlots(time_slots) :
            /\ BetaAlpha(slot) >= Unit
            /\ BetaBeta(slot) >= Unit
            /\ BetaAlpha(slot) = Max(Unit, slot.sample_count * slot.score + Unit)
            /\ BetaBeta(slot) = Max(Unit, slot.sample_count * (Unit - slot.score) + Unit))
    /\ [][ExplorationStep =>
            \E i \in 1..Len(SlotsOf(time_slots, result'.platform)) : ExploredSlot(i)]_vars
    /\ [](\A p \in DOMAIN time_slots : \A i \in 1..Len(time_slots[p]) :
            ENABLED (/\ GetOptimalTimeWithExplorationCall({p})
                     /\ result'.out.kind = "returned"
                     /\ Hour(result'.out.value.datetime_utc) = time_slots[p][i].key[1]
                     /\ Weekday(result'.out.value.datetime_utc) = time_slots[p][i].key[2]))

\* the slot returned is not one of the largest stored score
C24_Witness ==
    /\ result.op = "get_optimal_time_with_exploration"
    /\ result.out.kind = "returned"
    /\ \E i, j \in 1..Len(SlotsOf(time_slots, result.platform)) :
          LET ps == SlotsOf(time_slots, result.platform)
          IN /\ Hour(result.out.value.datetime_utc) = ps[i].key[1]
             /\ Weekday(result.out.value.datetime_utc) = ps[i].key[2]
             /\ result.out.value.score = ps[i].slot.score
             /\ ps[j].slot.score > ps[i].slot.score
             /\ ps[j].slot.sample_count > 0

\* the keys and sample counts a valid time_slots.json holds
PersistedSlots(file) ==
    LET ts == LoadSlots(EmptyStore, file.doc)
    IN {<<x[1], ts[x[1]][x[2]].key[1], ts[x[1]][x[2]].key[2],
          ts[x[1]][x[2]].slot.sample_count>> : x \in StoreEntries(ts)}

\* C25: slots persisted before the load task has run are not lost at startup:
\* whichever of the load task and the first calls runs first, the file keeps
\* every persisted slot with at least its persisted sample_count, and so does
\* the store in memory once the load task has completed.
C25_PersistedSlotsSurviveStartup ==
    [][(load_pending /\ slots_file.state = "valid") =>
          \A s \in PersistedSlots(slots_file) :
              /\ FileHolds(s[1], s[2], s[3], s[4])'
              /\ ~load_pending' => MemoryHolds(s[1], s[2], s[3], s[4])']_vars

\* the (platform, hour, day_of_week) keys of a store
StoreKeys(ts) ==
    {<<x[1], ts[x[1]][x[2]].key[1], ts[x[1]][x[2]].key[2]>> : x \in StoreEntries(ts)}

\* C26: record_post_performance for (p, h, d) changes only the slot keyed
\* (p, h, d): every other slot keeps its score, confidence, sample_count and
\* last_updated, no other key appears or disappears, and the call returns to
\* its caller without raising, whether or not the save succeeds.
C26_RecordTouchesOneSlot ==
    [][log' # log =>
          LET m == log'[Len(log')]
              k == <<m.platform, m.hour, m.day_of_week>>
          IN /\ result'.op = "record_post_performance"
             /\ result'.out = Returned(None)
             /\ StoreKeys(time_slots') = StoreKeys(time_slots) \cup {k}
             /\ \A o \in StoreKeys(time_slots) \ {k} :
                   SlotOrFresh(time_slots', o[1], o[2], o[3])
                     = SlotOrFresh(time_slots, o[1], o[2], o[3])]_vars

C26_Witness ==
    /\ result.op = "record_post_performance"
    /\ ~writable
    /\ Len(SlotsOf(time_slots, result.metrics.platform)) >= 2
    /\ SlotOrFresh(time_slots, result.metrics.platform, result.metrics.hour,
                   result.metrics.day_of_week).sample_count >= 2
    /\ \E slot \in AllSlots(time_slots) : slot.platform # result.metrics.platform

\* the candidates of the held get_optimal_time call built from the slot at
\* position i of the platform's dict
CandidatesOfSlot(i) ==
    {j \in 1..Len(ResultCandidates) :
        ResultCandidates[j].base_slot = SlotsOf(time_slots, result.platform)[i].slot}

\* the slots of the platform whose hour the held call does not exclude
NonExcludedSlots ==
    {i \in 1..Len(SlotsOf(time_slots, result.platform)) :
        SlotsOf(time_slots, result.platform)[i].key[1] \notin Elems(result.exclude_hours)}

\* C27: every stored slot of the platform whose hour is not excluded gives
\* exactly one candidate, at the slot's next occurrence strictly after now
\* (7 days ahead when the slot is of today's weekday and its hour has
\* passed); so with a non-excluded slot there are candidates and
\* get_optimal_time does not take the fallback path.
C27_EverySlotGivesOneCandidate ==
    GetOptimalTimeReturned =>
        /\ \A i \in NonExcludedSlots :
              LET e == SlotsOf(time_slots, result.platform)[i]
              IN /\ Cardinality(CandidatesOfSlot(i)) = 1
                 /\ \A j \in CandidatesOfSlot(i) :
                       ResultCandidates[j].datetime
                         = NextOccurrence(e.key[1], e.key[2], result.at)
        /\ (NonExcludedSlots # {} =>
              /\ ResultCandidates # << >>
              /\ ~result.out.value.alternative_slots.none)

\* the hours of the (at most three) recommendations before position i
HoursBefore(recs, i) == {Hour(recs[j].datetime_utc) : j \in Max(1, i - 3)..(i - 1)}

\* C28: get_optimal_time(platform, excludeHours) never returns an hour of day
\* that is in excludeHours, whatever the store holds (every slot excluded and
\* the empty store included); and in a schedule of optimize_schedule_for_week
\* no recommendation has the hour of one of the three before it.
C28_ExcludedHoursAreNeverReturned ==
    /\ GetOptimalTimeReturned =>
          Hour(result.out.value.datetime_utc) \notin Elems(result.exclude_hours)
    /\ (result.op = "optimize_schedule_for_week" /\ result.out.kind = "returned") =>
          \A p \in DOMAIN result.out.value :
              \A i \in 1..Len(result.out.value[p]) :
                  Hour(result.out.value[p][i].datetime_utc)
                      \notin HoursBefore(result.out.value[p], i)

\* the label of the instant 4 hours after utc_time
LocalLabel(utc_time) ==
    [day_name |-> day_names[Weekday(utc_time + 4 * TicksPerHour) + 1],
     hour |-> Hour(utc_time + 4 * TicksPerHour)]

\* C29: the local_time label of a recommendation denotes datetime_utc + 4
\* hours, in its hour and in its weekday name, for every UTC hour, 20 to 23
\* (the next local day) included.
C29_LocalTimeIsUtcPlusFour ==
    GetOptimalTimeReturned =>
        result.out.value.local_time = LocalLabel(result.out.value.datetime_utc)

\* a step that is a call of _save_data alone
SaveStep == result'.op = "_save_data" /\ time_slots' = time_slots /\ log' = log /\ now' = now

====
